---- MODULE Spec2Model ----
(***************************************************************************)
(* Model of app/utils/config-builder.js (ConfigBuilder).                   *)
(*                                                                         *)
(* One ConfigBuilder instance, a bounded number of calls made on it, and   *)
(* the collaborators it talks to: the hardware (MAC) lookup, fs.readFile,  *)
(* fs.stat and fs.writeFile.  Every asynchronous operation is a pair of    *)
(* steps: the step that issues it and the step in which its callback       *)
(* fires.  The promise handlers (q's then-callbacks) that run after a      *)
(* callback touch only the call's own locals, so they are folded into the  *)
(* step of the callback that releases them.                                *)
(*                                                                         *)
(* Text is a sequence of chunks (strings); a path is the sequence of its   *)
(* components.                                                             *)
(***************************************************************************)
EXTENDS Integers, Sequences, FiniteSets, TLC

\* Number of calls made on the instance.
MaxCalls == 2

Calls == 1..MaxCalls

VARIABLES
    cfg_local_network_gateway,  \* GLOBAL.config.cfg_local_network_gateway
    builder,     \* the instance: whether it was constructed, this._logger,
                 \* this._localNetworkGatewayIP
    platform,    \* os.platform(), which the constructor stores in this._platform
    gatewayId,   \* this._gatewayId: <<>> is null (unset), otherwise the identity
    files,       \* the filesystem: path -> content, for the files that exist
    calls        \* per call: where it is, its promises, what it did

vars == <<cfg_local_network_gateway, builder, platform, gatewayId, files, calls>>

----------------------------------------------------------------------------
\* Strings

UpperOf(ch) ==
    CASE ch = "a" -> "A" [] ch = "b" -> "B" [] ch = "c" -> "C"
      [] ch = "d" -> "D" [] ch = "e" -> "E" [] ch = "f" -> "F"
      [] OTHER -> ch

LowerOf(ch) ==
    CASE ch = "A" -> "a" [] ch = "B" -> "b" [] ch = "C" -> "c"
      [] ch = "D" -> "d" [] ch = "E" -> "e" [] ch = "F" -> "f"
      [] OTHER -> ch

toUpperCase(s) == [i \in DOMAIN s |-> UpperOf(s[i])]

toLowerCase(s) == [i \in DOMAIN s |-> LowerOf(s[i])]

NotColon(ch) == ch # ":"

\* mac.replace(/:/g, '')
replaceColons(s) == SelectSeq(s, NotColon)

\* mac.replace(/:/g, '').toUpperCase()
normalizeMac(mac) == toUpperCase(replaceColons(mac))

RECURSIVE join(_, _)
\* Array.prototype.join
join(lines, sep) ==
    IF lines = <<>> THEN <<>>
    ELSE IF Len(lines) = 1 THEN lines[1]
    ELSE lines[1] \o <<sep>> \o join(Tail(lines), sep)

\* if(this._gatewayId): null and the empty string are both falsy
Truthy(s) == s # <<>>

----------------------------------------------------------------------------
\* Configuration and environment

\* What the hardware lookup can hand to its callback as `mac`.
MacAddresses == { <<"a", "a", ":", "0", "1">>, <<"A", "B", ":", "c", "d">> }

\* os.platform()
Platforms == {"linux", "darwin", "win32"}

Targets == {"hostapd_conf", "gateway_agent_conf", "unknown_conf"}

cfg_config_file == <<"etc", "gateway", "agent.json">>

cfg_baseline_config_file == <<"etc", "gateway", "baseline.json">>

cfg_local_network_interface == "wlan0"

NoPath == <<>>

\* CONFIG_PATHS with the linux paths used on every other platform too.
CONFIG_PATHS_LinuxByDefault(target, plat) ==
    CASE target = "hostapd_conf" /\ plat = "darwin" -> <<"cwd", ".tmp", "hostapd.conf">>
      [] target = "hostapd_conf" -> <<"etc", "hostapd", "hostapd.conf">>
      [] target = "gateway_agent_conf" -> cfg_config_file
      [] OTHER -> NoPath

\* CONFIG_PATHS with the agent's target set to the baseline file.
CONFIG_PATHS_AgentIsBaseline(target, plat) ==
    CASE target = "hostapd_conf" /\ plat = "linux" -> <<"etc", "hostapd", "hostapd.conf">>
      [] target = "hostapd_conf" /\ plat = "darwin" -> <<"cwd", ".tmp", "hostapd.conf">>
      [] target = "gateway_agent_conf" /\ plat = "linux" -> cfg_baseline_config_file
      [] target = "gateway_agent_conf" /\ plat = "darwin" -> cfg_baseline_config_file
      [] OTHER -> NoPath

CONFIG_PATHS(target, plat) ==
    CASE target = "hostapd_conf" /\ plat = "linux" -> <<"etc", "hostapd", "hostapd.conf">>
      [] target = "hostapd_conf" /\ plat = "darwin" -> <<"cwd", ".tmp", "hostapd.conf">>
      [] target = "gateway_agent_conf" /\ plat = "linux" -> cfg_config_file
      [] target = "gateway_agent_conf" /\ plat = "darwin" -> cfg_config_file
      [] OTHER -> NoPath

KnownTarget(target) == target \in {"hostapd_conf", "gateway_agent_conf"}

\* _path.parse(path).dir
dirOf(path) == SubSeq(path, 1, Len(path) - 1)

\* Contents the baseline file can have.
BaselineContents ==
    { <<"{", "connectorTypes", ":", "[", "X", ",", "Y", "]", "}">>,
      <<"{", "}">>,
      <<"null">>,
      <<"{", "connectorTypes", ":", "[">> }

----------------------------------------------------------------------------
\* JSON

JsonPunct == {"{", "}", "[", "]", ":", ",", "null"}

\* "[" item ("," item)* "]" or "[" "]"
IsJsonArray(toks) ==
    /\ Len(toks) >= 2
    /\ toks[1] = "["
    /\ toks[Len(toks)] = "]"
    /\ Len(toks) > 2 => Len(toks) % 2 = 1
    /\ \A i \in 2..(Len(toks) - 1) :
            IF i % 2 = 0 THEN toks[i] \notin JsonPunct ELSE toks[i] = ","

NotComma(tok) == tok # ","

\* JSON.parse over the documents above: ok is FALSE where it throws a
\* SyntaxError; otherwise null or an object, of which only connectorTypes
\* is read afterwards.
JSONparse(data) ==
    IF data = <<"null">>
    THEN [ok |-> TRUE, isNull |-> TRUE, hasTypes |-> FALSE, types |-> <<>>]
    ELSE IF data = <<"{", "}">>
    THEN [ok |-> TRUE, isNull |-> FALSE, hasTypes |-> FALSE, types |-> <<>>]
    ELSE IF /\ Len(data) >= 6
            /\ data[1] = "{"
            /\ data[2] \notin JsonPunct
            /\ data[3] = ":"
            /\ data[Len(data)] = "}"
            /\ IsJsonArray(SubSeq(data, 4, Len(data) - 1))
    THEN [ok |-> TRUE, isNull |-> FALSE,
          hasTypes |-> (data[2] = "connectorTypes"),
          types |-> IF data[2] = "connectorTypes"
                    THEN SelectSeq(SubSeq(data, 5, Len(data) - 2), NotComma)
                    ELSE <<>>]
    ELSE [ok |-> FALSE, isNull |-> FALSE, hasTypes |-> FALSE, types |-> <<>>]

----------------------------------------------------------------------------
\* Payloads

\* hostApLines with the passphrase left in upper case.
hostApLines_PassphraseNotLowered(id) ==
    << <<"interface=wlan0">>,
       <<>>,
       <<"ssid=">> \o id,
       <<"wpa_passphrase=">> \o id,
       <<"channel=6">>,
       <<>>,
       <<"wmm_enabled=1">>,
       <<"wpa=1">>,
       <<"wpa_key_mgmt=WPA-PSK">>,
       <<"wpa_pairwise=TKIP">>,
       <<"rsn_pairwise=CCMP">>,
       <<"macaddr_acl=0">>,
       <<"auth_algs=1">> >>

\* The lines generateHostApConfig builds, joined with '\n'.
hostApLines(id) ==
    << <<"interface=wlan0">>,
       <<>>,
       <<"ssid=">> \o id,
       <<"wpa_passphrase=">> \o toLowerCase(id),
       <<"channel=6">>,
       <<>>,
       <<"wmm_enabled=1">>,
       <<"wpa=1">>,
       <<"wpa_key_mgmt=WPA-PSK">>,
       <<"wpa_pairwise=TKIP">>,
       <<"rsn_pairwise=CCMP">>,
       <<"macaddr_acl=0">>,
       <<"auth_algs=1">> >>

hostApText(id) == join(hostApLines(id), "\n")

\* {}
EmptyObject == [k \in {} |-> ""]

\* newConfig with the cloud connector given the device connector's suffix.
newConfig_CloudNamedAsGateway(config, id) ==
    [ hasTypes |-> config.hasTypes,
      connectorTypes |-> config.types,
      deviceConnectors |->
        [n \in {id \o <<"-cnc-gateway">>} |-> [type |-> "CncGateway", config |-> EmptyObject]],
      cloudConnectors |->
        [n \in {id \o <<"-cnc-gateway">>} |->
            [type |-> "CncCloud",
             config |-> [ host |-> builder.localNetworkGatewayIP.s,
                          port |-> 1883,
                          protocol |-> "mqtt",
                          account |-> id,
                          networkInterface |-> cfg_local_network_interface,
                          gatewayname |-> id,
                          topics |-> "" ]]] ]

\* The object generateGatewayAgentConfig builds from the parsed baseline:
\* connectorTypes (hasTypes: whether it is defined) and the two maps from
\* connector name to connector.
newConfig(config, id) ==
    [ hasTypes |-> config.hasTypes,
      connectorTypes |-> config.types,
      deviceConnectors |->
        [n \in {id \o <<"-cnc-gateway">>} |-> [type |-> "CncGateway", config |-> EmptyObject]],
      cloudConnectors |->
        [n \in {id \o <<"-cnc-cloud">>} |->
            [type |-> "CncCloud",
             config |-> [ host |-> builder.localNetworkGatewayIP.s,
                          port |-> 1883,
                          protocol |-> "mqtt",
                          account |-> id,
                          networkInterface |-> cfg_local_network_interface,
                          gatewayname |-> id,
                          topics |-> "" ]]] ]

RECURSIVE commaList(_)
commaList(items) ==
    IF items = <<>> THEN <<>>
    ELSE IF Len(items) = 1 THEN <<items[1]>>
    ELSE <<items[1], ",">> \o commaList(Tail(items))

\* a connector's config object as tokens
stringifyConfig(cfg) ==
    IF DOMAIN cfg = {}
    THEN <<"{", "}">>
    ELSE <<"{", "host", ":", cfg.host, ",", "port", ":", ToString(cfg.port), ",">>
         \o <<"protocol", ":", cfg.protocol, ",", "account", ":">> \o cfg.account
         \o <<",", "networkInterface", ":", cfg.networkInterface, ",", "gatewayname", ":">>
         \o cfg.gatewayname
         \o <<",", "topics", ":", cfg.topics, "}">>

RECURSIVE stringifyConnectors(_, _)
\* the properties of a map of connectors as tokens
stringifyConnectors(conns, names) ==
    IF names = {} THEN <<>>
    ELSE LET n == CHOOSE x \in names : TRUE
         IN  n \o <<":", "{", "type", ":", conns[n].type, ",", "config", ":">>
             \o stringifyConfig(conns[n].config) \o <<"}">>
             \o (IF names = {n} THEN <<>> ELSE <<",">>)
             \o stringifyConnectors(conns, names \ {n})

\* JSON.stringify(config, null, 4) as a token sequence, properties in
\* insertion order; a property whose value is undefined is left out.
stringify(cfg) ==
    <<"{">>
    \o (IF cfg.hasTypes
        THEN <<"connectorTypes", ":", "[">> \o commaList(cfg.connectorTypes) \o <<"]", ",">>
        ELSE <<>>)
    \o <<"deviceConnectors", ":", "{">>
    \o stringifyConnectors(cfg.deviceConnectors, DOMAIN cfg.deviceConnectors)
    \o <<"}", ",", "cloudConnectors", ":", "{">>
    \o stringifyConnectors(cfg.cloudConnectors, DOMAIN cfg.cloudConnectors)
    \o <<"}", "}">>

----------------------------------------------------------------------------
\* Calls

Generators == {"hostap", "agent"}

\* A call that has not been made yet.
NoCall ==
    [ kind |-> "none",        \* "hostap", "agent", or "write" (a _writeConfig call)
      pc |-> "idle",          \* the I/O issued last: "mac", "read", "stat", "write"; "end": none left
      inflight |-> {},        \* the I/O issued whose callback has not fired
      pathArg |-> "none",     \* _getConfigPath's target, when it is called on its own
      ret |-> <<>>,           \* what that _getConfigPath call returned
      promise |-> "none",     \* the promise returned to the caller
      cause |-> "none",       \* what that promise was rejected with
      fail |-> "none",        \* the first stage that failed
      id |-> <<>>,            \* the identity _getGatewayId resolved with
      rdata |-> <<>>,         \* what readFile returned
      target |-> "none",      \* _writeConfig's target
      config |-> <<>>,        \* the object generateGatewayAgentConfig serializes
      data |-> <<>>,          \* _writeConfig's data
      edef |-> "none",        \* _ensureConfig's promise
      wdef |-> "none",        \* _writeConfig's promise
      wcause |-> "none",
      nMac |-> 0, nRead |-> 0, nStat |-> 0, nWrite |-> 0,   \* I/O issued
      statOk |-> FALSE,       \* the stat of the parent directory succeeded
      statDir |-> <<>>,       \* the directory stat was issued on
      writePath |-> <<>>,     \* the path writeFile was issued on
      writeOk |-> FALSE,      \* writeFile completed without error
      afterIdFail |-> FALSE,  \* made after an identity resolution had failed
      log |-> <<>> ]          \* what the call logged

Log(r, tag) == [r EXCEPT !.log = Append(@, tag)]

IdFailures == {"mac_error", "normalize_ex"}

\* _getConfigPath: the path of the target on this platform, or null
getConfigPath(target) == CONFIG_PATHS(target, platform)

\* the error _getConfigPath logs when it returns null
getConfigPathLog(r, target) ==
    IF ~KnownTarget(target) THEN Log(r, "error:no_path_for_target")
    ELSE IF getConfigPath(target) = NoPath THEN Log(r, "error:target_not_on_platform")
    ELSE r

\* The rejection handler both generators end their chain with: log, rethrow.
generatorRejected(r, err) ==
    [Log(r, "error:updating_configuration")
        EXCEPT !.promise = "rejected", !.cause = err, !.pc = "end"]

\* The last fulfilment handler of both generators: log success.
generatorResolved(r) ==
    [Log(r, "info:configuration_updated") EXCEPT !.promise = "resolved"]

\* What follows on a settled or pending _writeConfig promise.
\*  hostap: the promise is returned from the handler, the chain adopts it.
\*  agent: the handler calls _writeConfig and returns nothing, the chain
\*         goes on at once with undefined.
\*  write: the promise is the caller's.
writeConfigSettled(r) ==
    CASE r.kind = "hostap" /\ r.wdef = "resolved" -> generatorResolved(r)
      [] r.kind = "hostap" /\ r.wdef = "rejected" -> generatorRejected(r, r.wcause)
      [] r.kind = "write" -> [r EXCEPT !.promise = r.wdef, !.cause = r.wcause]
      [] OTHER -> r

\* writeConfig with writeFile issued without waiting for _ensureConfig.
writeConfig_WriteAtOnce(r, target, data) ==
    LET path == getConfigPath(target)
        r1 == [r EXCEPT !.target = target, !.data = data, !.wdef = "pending"]
    IN  IF path = NoPath
        THEN [getConfigPathLog(r1, target)
                EXCEPT !.edef = "rejected", !.fail = "not_applicable", !.pc = "end"]
        ELSE [r1 EXCEPT !.edef = "pending", !.pc = "stat", !.nStat = @ + 1,
                        !.nWrite = @ + 1, !.inflight = @ \cup {"stat", "write"},
                        !.statDir = dirOf(path), !.writePath = path]

\* _writeConfig up to the I/O _ensureConfig issues.  A rejection of
\* _ensureConfig's promise has no handler in _writeConfig.
writeConfig(r, target, data) ==
    LET path == getConfigPath(target)
        r1 == [r EXCEPT !.target = target, !.data = data, !.wdef = "pending"]
    IN  IF path = NoPath
        THEN [getConfigPathLog(r1, target)
                EXCEPT !.edef = "rejected", !.fail = "not_applicable", !.pc = "end"]
        ELSE [r1 EXCEPT !.edef = "pending", !.pc = "stat", !.nStat = @ + 1,
                        !.inflight = @ \cup {"stat"}, !.statDir = dirOf(path)]

\* The third handler of generateGatewayAgentConfig and the one after it.
agentWrite(r, config) ==
    generatorResolved(
        writeConfig([r EXCEPT !.config = config], "gateway_agent_conf", stringify(config)))

\* The handlers that run once _getGatewayId has resolved with id.
identityResolved(r, id) ==
    LET r1 == [r EXCEPT !.id = id]
    IN  CASE r.kind = "hostap" ->
                writeConfigSettled(writeConfig(r1, "hostapd_conf", hostApText(id)))
          [] r.kind = "agent" ->
                [Log(r1, "debug:obtaining_existing_configuration")
                    EXCEPT !.pc = "read", !.nRead = @ + 1,
                           !.inflight = @ \cup {"read"}]
          [] OTHER -> r1

\* The rejection of _getGatewayId's promise reaches the generator's
\* rejection handler, every fulfilment handler before it being skipped.
identityRejected(r, err) == generatorRejected([r EXCEPT !.fail = err], err)

\* What the hardware lookup can call back with: an error, a mac that is
\* no string (mac.replace throws), or a MAC address.
MacOutcomes ==
    { [err |-> TRUE, str |-> FALSE, mac |-> <<>>],
      [err |-> FALSE, str |-> FALSE, mac |-> <<>>] }
    \cup { [err |-> FALSE, str |-> TRUE, mac |-> m] : m \in MacAddresses }

\* getGatewayIdCache with a fallback identity cached when the lookup fails.
getGatewayIdCache_CacheOnFailure(cached, o) ==
    IF o.err \/ ~o.str THEN <<"UNKNOWN">> ELSE normalizeMac(o.mac)

\* this._gatewayId after the lookup's callback
getGatewayIdCache(cached, o) ==
    IF o.err \/ ~o.str THEN cached ELSE normalizeMac(o.mac)

\* The call after the lookup's callback.
getGatewayIdDone(r, o) ==
    IF o.err
    THEN identityRejected(Log(r, "error:unable_to_get_mac"), "mac_error")
    ELSE IF ~o.str
    THEN identityRejected(Log(r, "error:exception"), "normalize_ex")
    ELSE identityResolved(r, normalizeMac(o.mac))

\* readExistingConfigDone with the parse error swallowed: an unparsable
\* baseline counts as an empty object.
readExistingConfigDone_SwallowParseError(r, err, data) ==
    LET config == JSONparse(data)
        r1 == [r EXCEPT !.rdata = data]
    IN  IF err
        THEN generatorRejected(
                [Log(r, "error:reading_existing_configuration") EXCEPT !.fail = "read_err"],
                "read_err")
        ELSE IF ~config.ok
        THEN agentWrite([Log(r1, "error:parsing_existing_configuration")
                            EXCEPT !.fail = "parse_err"],
                        newConfig(JSONparse(<<"{", "}">>), r.id))
        ELSE IF config.isNull
        THEN generatorRejected([r1 EXCEPT !.fail = "type_err"], "type_err")
        ELSE agentWrite(r1, newConfig(config, r.id))

\* The call after readFile's callback: _readExistingConfig with parse set,
\* then the second and third handlers of generateGatewayAgentConfig.
readExistingConfigDone(r, err, data) ==
    LET config == JSONparse(data)
        r1 == [r EXCEPT !.rdata = data]
    IN  IF err
        THEN generatorRejected(
                [Log(r, "error:reading_existing_configuration") EXCEPT !.fail = "read_err"],
                "read_err")
        ELSE IF ~config.ok
        THEN generatorRejected(
                [Log(r1, "error:parsing_existing_configuration") EXCEPT !.fail = "parse_err"],
                "parse_err")
        ELSE IF config.isNull
        THEN generatorRejected([r1 EXCEPT !.fail = "type_err"], "type_err")
        ELSE agentWrite(r1, newConfig(config, r.id))

\* ensureConfigDone with stat's error ignored: the path is resolved either way.
ensureConfigDone_IgnoreStatError(r, err) ==
    [Log(Log(r, "debug:parent_directory_exists"), "debug:writing_config_data")
        EXCEPT !.edef = "resolved", !.statOk = ~err,
               !.fail = IF err THEN "no_dir" ELSE @, !.pc = "write",
               !.nWrite = @ + 1, !.inflight = @ \cup {"write"},
               !.writePath = getConfigPath(r.target)]

\* The call after stat's callback: the rest of _ensureConfig, and the
\* handler of _writeConfig that issues writeFile.
ensureConfigDone(r, err) ==
    IF err
    THEN [Log(r, "error:unable_to_find_directory")
            EXCEPT !.edef = "rejected", !.fail = "no_dir", !.pc = "end"]
    ELSE [Log(Log(r, "debug:parent_directory_exists"), "debug:writing_config_data")
            EXCEPT !.edef = "resolved", !.statOk = TRUE, !.pc = "write",
                   !.nWrite = @ + 1, !.inflight = @ \cup {"write"},
                   !.writePath = getConfigPath(r.target)]

\* writeFileDone with a failed write issued again.
writeFileDone_Retry(r, err) ==
    IF err
    THEN [Log(r, "error:writing_to_file")
            EXCEPT !.pc = "write", !.nWrite = @ + 1, !.inflight = @ \cup {"write"}]
    ELSE writeConfigSettled(
            [Log(Log(r, "info:config_file_written"), "debug:config_data")
                EXCEPT !.wdef = "resolved", !.writeOk = TRUE, !.pc = "end"])

\* The call after writeFile's callback.  The error branch does not return:
\* the success messages are logged and def.resolve() is called on the
\* already rejected promise, which ignores it.
writeFileDone(r, err) ==
    LET r1 == IF err
              THEN [Log(r, "error:writing_to_file")
                      EXCEPT !.wdef = "rejected", !.wcause = "write_err",
                             !.fail = "write_err"]
              ELSE [r EXCEPT !.wdef = "resolved", !.writeOk = TRUE]
        r2 == Log(Log(r1, "info:config_file_written"), "debug:config_data")
    IN  writeConfigSettled([r2 EXCEPT !.pc = "end"])

WriteOutcomes == {"ok", "err_open", "err_write"}

\* writeFileEffect with the data appended to what the file holds.
writeFileEffect_Append(fs, path, data, outcome) ==
    CASE outcome = "ok" ->
            [p \in DOMAIN fs \cup {path} |->
                IF p # path THEN fs[p]
                ELSE IF path \in DOMAIN fs THEN fs[path] \o data ELSE data]
      [] outcome = "err_write" -> [p \in DOMAIN fs \cup {path} |-> IF p = path THEN <<>> ELSE fs[p]]
      [] OTHER -> fs

\* The file after writeFile: written in full, untouched when it could not
\* be opened, truncated when the write itself failed.
writeFileEffect(fs, path, data, outcome) ==
    CASE outcome = "ok" -> [p \in DOMAIN fs \cup {path} |-> IF p = path THEN data ELSE fs[p]]
      [] outcome = "err_write" -> [p \in DOMAIN fs \cup {path} |-> IF p = path THEN <<>> ELSE fs[p]]
      [] OTHER -> fs

\* startGenerator with the cached identity never consulted.
startGenerator_IgnoreCache(kind) ==
    LET r0 == Log([NoCall EXCEPT !.kind = kind, !.promise = "pending",
                       !.afterIdFail = \E d \in Calls : calls[d].fail \in IdFailures],
                  "debug:generating")
    IN  [r0 EXCEPT !.pc = "mac", !.nMac = @ + 1, !.inflight = @ \cup {"mac"}]

\* A generator up to its first I/O: _getGatewayId with or without a cached
\* identity.
startGenerator(kind) ==
    LET r0 == Log([NoCall EXCEPT !.kind = kind, !.promise = "pending",
                       !.afterIdFail = \E d \in Calls : calls[d].fail \in IdFailures],
                  "debug:generating")
    IN  IF Truthy(gatewayId)
        THEN identityResolved(r0, gatewayId)
        ELSE [r0 EXCEPT !.pc = "mac", !.nMac = @ + 1, !.inflight = @ \cup {"mac"}]

----------------------------------------------------------------------------
\* The state machine

NoFiles == [p \in {} |-> <<>>]

\* JavaScript values the constructor can be given: type is what typeof
\* says, except "null" for null; s is the string, where it is one.
Undefined == [type |-> "undefined", s |-> ""]

LoggerArgs ==
    { Undefined,
      [type |-> "null", s |-> ""],
      [type |-> "string", s |-> "logger"],
      [type |-> "object", s |-> ""] }

GatewaySettings ==
    { Undefined,
      [type |-> "string", s |-> ""],
      [type |-> "string", s |-> "10.0.0.1"] }

\* !logger || typeof logger !== 'object'
invalidLogger(logger) ==
    \/ logger.type \in {"undefined", "null"}
    \/ logger.type = "string" /\ Len(logger.s) = 0
    \/ logger.type # "object"

\* invalidGateway with the comparison off by one.
invalidGateway_LengthBelowZero(ip) ==
    ip.type # "string" \/ Len(ip.s) < 0

\* typeof ip !== 'string' || ip.length <= 0
invalidGateway(ip) ==
    ip.type # "string" \/ Len(ip.s) <= 0

NotConstructed ==
    [state |-> "none", arg |-> Undefined, logger |-> Undefined,
     localNetworkGatewayIP |-> Undefined]

\* new ConfigBuilder(logger): the instance, or "threw" with the fields
\* assigned before the throw.
ConfigBuilder(logger) ==
    IF invalidLogger(logger)
    THEN [NotConstructed EXCEPT !.state = "threw", !.arg = logger]
    ELSE IF invalidGateway(cfg_local_network_gateway)
    THEN [state |-> "threw", arg |-> logger, logger |-> logger,
          localNetworkGatewayIP |-> cfg_local_network_gateway]
    ELSE [state |-> "built", arg |-> logger, logger |-> logger,
          localNetworkGatewayIP |-> cfg_local_network_gateway]

\* The process before the constructor runs; the baseline file exists or
\* does not.
Init ==
    /\ cfg_local_network_gateway \in GatewaySettings
    /\ builder = NotConstructed
    /\ platform \in Platforms
    /\ gatewayId = <<>>
    /\ files \in {NoFiles} \cup
                 { [p \in {cfg_baseline_config_file} |-> b] : b \in BaselineContents }
    /\ calls = [c \in Calls |-> NoCall]

Construct ==
    /\ builder.state = "none"
    /\ \E logger \in LoggerArgs : builder' = ConfigBuilder(logger)
    /\ UNCHANGED <<cfg_local_network_gateway, platform, gatewayId, files, calls>>

\* Calls are made on a constructed instance, and numbered in the order
\* they are made.
CanStart(c) ==
    /\ builder.state = "built"
    /\ calls[c].kind = "none"
    /\ c > 1 => calls[c - 1].kind # "none"

\* an I/O callback of the call has fired
fired(r, op) == [r EXCEPT !.inflight = @ \ {op}]

GenerateHostApConfig(c) ==
    /\ CanStart(c)
    /\ calls' = [calls EXCEPT ![c] = startGenerator("hostap")]
    /\ UNCHANGED <<cfg_local_network_gateway, builder, platform, gatewayId, files>>

GenerateGatewayAgentConfig(c) ==
    /\ CanStart(c)
    /\ calls' = [calls EXCEPT ![c] = startGenerator("agent")]
    /\ UNCHANGED <<cfg_local_network_gateway, builder, platform, gatewayId, files>>

\* _writeConfig called on its own, which only a caller other than the two
\* generators does: with a target that is none of theirs.
WriteConfig(c) ==
    /\ CanStart(c)
    /\ \E target \in {t \in Targets : ~KnownTarget(t)} :
         calls' = [calls EXCEPT ![c] =
            writeConfigSettled(
                writeConfig([NoCall EXCEPT !.kind = "write", !.promise = "pending"],
                            target, <<"data">>))]
    /\ UNCHANGED <<cfg_local_network_gateway, builder, platform, gatewayId, files>>

\* _getConfigPath called on its own.
GetConfigPath(c) ==
    /\ CanStart(c)
    /\ \E target \in Targets :
         calls' = [calls EXCEPT ![c] =
            getConfigPathLog(
                [NoCall EXCEPT !.kind = "path", !.pc = "end", !.pathArg = target,
                               !.ret = getConfigPath(target)],
                target)]
    /\ UNCHANGED <<cfg_local_network_gateway, builder, platform, gatewayId, files>>

MacCallback(c) ==
    /\ "mac" \in calls[c].inflight
    /\ \E o \in MacOutcomes :
         /\ gatewayId' = getGatewayIdCache(gatewayId, o)
         /\ calls' = [calls EXCEPT ![c] = getGatewayIdDone(fired(calls[c], "mac"), o)]
    /\ UNCHANGED <<cfg_local_network_gateway, builder, platform, files>>

ReadFileCallback(c) ==
    /\ "read" \in calls[c].inflight
    /\ \/ calls' = [calls EXCEPT ![c] =
                readExistingConfigDone(fired(calls[c], "read"), TRUE, <<>>)]
       \/ /\ cfg_baseline_config_file \in DOMAIN files
          /\ calls' = [calls EXCEPT ![c] =
                readExistingConfigDone(fired(calls[c], "read"), FALSE,
                                       files[cfg_baseline_config_file])]
    /\ UNCHANGED <<cfg_local_network_gateway, builder, platform, gatewayId, files>>

StatCallback(c) ==
    /\ "stat" \in calls[c].inflight
    /\ \E err \in BOOLEAN :
         calls' = [calls EXCEPT ![c] = ensureConfigDone(fired(calls[c], "stat"), err)]
    /\ UNCHANGED <<cfg_local_network_gateway, builder, platform, gatewayId, files>>

WriteFileCallback(c) ==
    /\ "write" \in calls[c].inflight
    /\ \E outcome \in WriteOutcomes :
         /\ files' = writeFileEffect(files, calls[c].writePath, calls[c].data, outcome)
         /\ calls' = [calls EXCEPT ![c] =
                writeFileDone(fired(calls[c], "write"), outcome # "ok")]
    /\ UNCHANGED <<cfg_local_network_gateway, builder, platform, gatewayId>>

Next ==
    \/ Construct
    \/ \E c \in Calls : GetConfigPath(c)
    \/ \E c \in Calls : GenerateHostApConfig(c)
    \/ \E c \in Calls : GenerateGatewayAgentConfig(c)
    \/ \E c \in Calls : WriteConfig(c)
    \/ \E c \in Calls : MacCallback(c)
    \/ \E c \in Calls : ReadFileCallback(c)
    \/ \E c \in Calls : StatCallback(c)
    \/ \E c \in Calls : WriteFileCallback(c)

Spec == Init /\ [][Next]_vars

\* Every I/O callback eventually fires.
FairSpec ==
    /\ Spec
    /\ \A c \in Calls :
         /\ WF_vars(MacCallback(c))
         /\ WF_vars(ReadFileCallback(c))
         /\ WF_vars(StatCallback(c))
         /\ WF_vars(WriteFileCallback(c))

----------------------------------------------------------------------------
\* Properties

Settled == {"resolved", "rejected"}

\* C1: while no callback of a hardware lookup has fired, at most one
\* hardware lookup has been issued, however many calls were made.
C1_SingleLookup ==
    (\A c \in Calls : calls[c].nMac > 0 => calls[c].pc = "mac")
        => Cardinality({c \in Calls : calls[c].nMac > 0}) <= 1

\* C2: a generateGatewayAgentConfig call in which a stage has failed has its
\* promise rejected with that failure's cause.
C2_AgentPropagatesFailure ==
    \A c \in Calls :
        (calls[c].kind = "agent" /\ calls[c].fail # "none")
            => (calls[c].promise = "rejected" /\ calls[c].cause = calls[c].fail)

\* C3: a generateHostApConfig call in which identity resolution, path
\* resolution, the directory check or the write has failed has its promise
\* rejected, and has issued no I/O operation twice.
C3_HostApPropagatesFailure ==
    \A c \in Calls :
        (calls[c].kind = "hostap" /\ calls[c].fail # "none")
            => /\ calls[c].promise = "rejected"
               /\ calls[c].nMac <= 1 /\ calls[c].nStat <= 1 /\ calls[c].nWrite <= 1

\* C4: when every I/O callback eventually fires, the promise of every
\* generator call is eventually resolved or rejected.
C4_GeneratorTerminates ==
    \A c \in Calls :
        (calls[c].kind \in Generators) ~> (calls[c].promise \in Settled)

\* C5: the promise of a generator is resolved only when the write of its
\* target file has completed successfully.
C5_ResolvedOnlyAfterWrite ==
    \A c \in Calls :
        (calls[c].kind \in Generators /\ calls[c].promise = "resolved")
            => calls[c].writeOk

\* C6: a call issues writeFile only after its stat of the parent directory
\* of the path written has succeeded; when the stat fails no write is issued.
C6_WriteOnlyAfterStat ==
    \A c \in Calls :
        /\ calls[c].nWrite > 0
            => /\ calls[c].statOk
               /\ calls[c].nStat = 1
               /\ calls[c].statDir = dirOf(calls[c].writePath)
        /\ calls[c].fail = "no_dir" => calls[c].nWrite = 0

\* a stat has failed and the call has ended without a write
C6_Witness ==
    \E c \in Calls :
        /\ calls[c].fail = "no_dir"
        /\ calls[c].nStat = 1
        /\ calls[c].pc = "end"
        /\ calls[c].nWrite = 0

\* C7: when the target does not resolve to a path, _writeConfig's promise is
\* rejected with 'not applicable' at once, and no stat or write is issued.
C7_UnresolvedTargetRejected ==
    \A c \in Calls :
        (calls[c].target # "none" /\ getConfigPath(calls[c].target) = NoPath)
            => /\ calls[c].wdef = "rejected"
               /\ calls[c].wcause = "not_applicable"
               /\ calls[c].nStat = 0
               /\ calls[c].nWrite = 0

\* the baseline was read without error by call c
BaselineRead(c) ==
    /\ calls[c].kind = "agent"
    /\ calls[c].nRead = 1
    /\ calls[c].pc # "read"
    /\ calls[c].fail # "read_err"

\* C8: when the baseline read is not valid JSON, generateGatewayAgentConfig
\* is rejected with the parse error and has issued no stat and no write.
C8_MalformedBaselineNoWrite ==
    \A c \in Calls :
        (BaselineRead(c) /\ ~JSONparse(calls[c].rdata).ok)
            => /\ calls[c].promise = "rejected"
               /\ calls[c].cause = "parse_err"
               /\ calls[c].nStat = 0
               /\ calls[c].nWrite = 0

\* a call has read a malformed baseline
C8_Witness ==
    \E c \in Calls :
        /\ BaselineRead(c)
        /\ ~JSONparse(calls[c].rdata).ok
        /\ calls[c].promise = "rejected"

\* C9: a lookup callback that reports an error, or whose normalization
\* throws, rejects the call and leaves the cached identity as it was; a
\* generator called while no identity is cached issues a hardware lookup.
C9_FailureNotCached ==
    [][\A c \in Calls :
        /\ (calls[c].pc = "mac" /\ calls'[c].fail \in IdFailures)
            => /\ calls'[c].promise = "rejected"
               /\ calls'[c].cause = calls'[c].fail
               /\ gatewayId' = gatewayId
        /\ (calls[c].kind = "none" /\ calls'[c].kind \in Generators /\ ~Truthy(gatewayId))
            => /\ calls'[c].nMac = 1
               /\ calls'[c].pc = "mac"]_vars

\* a lookup has failed, nothing is cached, and a call made after the
\* failure has issued a lookup of its own
C9_Witness ==
    \E c, d \in Calls :
        /\ calls[c].fail \in IdFailures
        /\ calls[c].promise = "rejected"
        /\ ~Truthy(gatewayId)
        /\ calls[d].afterIdFail
        /\ calls[d].nMac = 1

\* C10: once set, the cached identity never changes.
C10_CacheStable == [][Truthy(gatewayId) => gatewayId' = gatewayId]_vars


\* C11: a generator called while an identity is cached gets the cached
\* identity and issues no hardware lookup, then or later in the call.
C11_CachedIdentityNoLookup ==
    [][\A c \in Calls :
        /\ (calls[c].kind = "none" /\ calls'[c].kind \in Generators /\ gatewayId # <<>>)
            => /\ calls'[c].nMac = 0
               /\ calls'[c].id = gatewayId
               /\ gatewayId' = gatewayId
        /\ calls[c].kind \in Generators => calls'[c].nMac = calls[c].nMac]_vars

\* a call made with an identity cached has gone on without a lookup
C11_Witness ==
    \E c, d \in Calls :
        /\ calls[c].nMac = 1
        /\ calls[c].id # <<>>
        /\ calls[d].kind \in Generators
        /\ calls[d].nMac = 0
        /\ calls[d].id = gatewayId
        /\ calls[d].nStat + calls[d].nRead = 1

FirstAt(text, sep) ==
    CHOOSE i \in 1..Len(text) : text[i] = sep /\ \A j \in 1..(i - 1) : text[j] # sep

RECURSIVE splitText(_, _)
\* the lines of a text: what join put together
splitText(text, sep) ==
    IF \A i \in 1..Len(text) : text[i] # sep
    THEN <<text>>
    ELSE <<SubSeq(text, 1, FirstAt(text, sep) - 1)>>
         \o splitText(SubSeq(text, FirstAt(text, sep) + 1, Len(text)), sep)

\* call c is a generateHostApConfig call that has handed its text to _writeConfig
HostApTextBuilt(c) == calls[c].kind = "hostap" /\ calls[c].target = "hostapd_conf"

BlankLines(lines) == {i \in 1..Len(lines) : lines[i] = <<>>}

\* C12, as claimed: the text is 13 lines, one of them blank, with the ssid
\* and passphrase lines and the fixed constants.
C12_ThirteenLinesOneBlank ==
    \A c \in Calls :
        HostApTextBuilt(c) =>
            LET lines == splitText(calls[c].data, "\n")
            IN  /\ Len(lines) = 13
                /\ Cardinality(BlankLines(lines)) = 1
                /\ lines[3] = <<"ssid=">> \o calls[c].id
                /\ lines[4] = <<"wpa_passphrase=">> \o toLowerCase(calls[c].id)
                /\ lines[5] = <<"channel=6">>
                /\ lines[9] = <<"wpa_key_mgmt=WPA-PSK">>
                /\ lines[10] = <<"wpa_pairwise=TKIP">>
                /\ lines[11] = <<"rsn_pairwise=CCMP">>
                /\ lines[13] = <<"auth_algs=1">>

\* C12, amended: the text is these 13 lines in this order, the 2nd and the
\* 6th blank, the 3rd 'ssid=' + id, the 4th 'wpa_passphrase=' + lowercase(id).
C12_ThirteenLinesTwoBlank ==
    \A c \in Calls :
        HostApTextBuilt(c) =>
            LET lines == splitText(calls[c].data, "\n")
            IN  /\ Len(lines) = 13
                /\ BlankLines(lines) = {2, 6}
                /\ lines[1] = <<"interface=wlan0">>
                /\ lines[3] = <<"ssid=">> \o calls[c].id
                /\ lines[4] = <<"wpa_passphrase=">> \o toLowerCase(calls[c].id)
                /\ lines[5] = <<"channel=6">>
                /\ lines[7] = <<"wmm_enabled=1">>
                /\ lines[8] = <<"wpa=1">>
                /\ lines[9] = <<"wpa_key_mgmt=WPA-PSK">>
                /\ lines[10] = <<"wpa_pairwise=TKIP">>
                /\ lines[11] = <<"rsn_pairwise=CCMP">>
                /\ lines[12] = <<"macaddr_acl=0">>
                /\ lines[13] = <<"auth_algs=1">>

\* a text built from an identity with letters in it has been handed to writeFile
C12_Witness ==
    \E c \in Calls :
        /\ HostApTextBuilt(c)
        /\ calls[c].nWrite = 1
        /\ calls[c].id # toLowerCase(calls[c].id)


\* call c is a generateGatewayAgentConfig call that has serialized its object
AgentConfigBuilt(c) == calls[c].kind = "agent" /\ calls[c].target = "gateway_agent_conf"

\* C13: the object serialized has the baseline's connectorTypes, exactly one
\* cloud connector, named id + '-cnc-cloud', with account = gatewayname = id,
\* port 1883, protocol 'mqtt', host the configured gateway address and empty
\* topics, and exactly one device connector, named id + '-cnc-gateway', with
\* an empty config.
C13_AgentConfigShape ==
    \A c \in Calls :
        AgentConfigBuilt(c) =>
            LET cfg == calls[c].config
                b == JSONparse(calls[c].rdata)
                id == calls[c].id
            IN  /\ cfg.hasTypes = b.hasTypes
                /\ cfg.connectorTypes = b.types
                /\ DOMAIN cfg.cloudConnectors = {id \o <<"-cnc-cloud">>}
                /\ \A n \in DOMAIN cfg.cloudConnectors :
                     /\ cfg.cloudConnectors[n].config.account = id
                     /\ cfg.cloudConnectors[n].config.gatewayname = id
                     /\ cfg.cloudConnectors[n].config.port = 1883
                     /\ cfg.cloudConnectors[n].config.protocol = "mqtt"
                     /\ cfg.cloudConnectors[n].config.host = cfg_local_network_gateway.s
                     /\ cfg.cloudConnectors[n].config.topics = ""
                /\ DOMAIN cfg.deviceConnectors = {id \o <<"-cnc-gateway">>}
                /\ \A n \in DOMAIN cfg.deviceConnectors :
                     DOMAIN cfg.deviceConnectors[n].config = {}
                /\ calls[c].data = stringify(cfg)

\* an object built from a baseline with connector types has been serialized
C13_Witness ==
    \E c \in Calls :
        /\ AgentConfigBuilt(c)
        /\ calls[c].id = <<"A", "B", "C", "D">>
        /\ calls[c].config.hasTypes
        /\ calls[c].config.connectorTypes = <<"X", "Y">>


\* C14: _getConfigPath returns null for a target other than hostapd_conf and
\* gateway_agent_conf and for a platform other than linux and darwin, the
\* configured path for the four other pairs, and leaves the instance, the
\* files and the other calls as they are, issuing no I/O.
C14_GetConfigPath ==
    [][\A c \in Calls :
        (calls[c].kind = "none" /\ calls'[c].kind = "path") =>
            LET t == calls'[c].pathArg
                ret == calls'[c].ret
            IN  /\ t \notin {"hostapd_conf", "gateway_agent_conf"} => ret = NoPath
                /\ platform \notin {"linux", "darwin"} => ret = NoPath
                /\ (t = "hostapd_conf" /\ platform = "linux")
                        => ret = <<"etc", "hostapd", "hostapd.conf">>
                /\ (t = "hostapd_conf" /\ platform = "darwin")
                        => ret = <<"cwd", ".tmp", "hostapd.conf">>
                /\ (t = "gateway_agent_conf" /\ platform \in {"linux", "darwin"})
                        => ret = cfg_config_file
                /\ UNCHANGED <<builder, platform, gatewayId, files>>
                /\ calls'[c].inflight = {}
                /\ calls'[c].nStat = 0 /\ calls'[c].nWrite = 0 /\ calls'[c].nRead = 0
                /\ \A d \in Calls \ {c} : calls'[d] = calls[d]]_vars

\* _getConfigPath has returned null for a known target on another platform,
\* and a path for a known pair
C14_Witness ==
    \/ \E c \in Calls :
        /\ calls[c].kind = "path"
        /\ calls[c].pathArg = "hostapd_conf"
        /\ platform = "win32"
        /\ calls[c].ret = NoPath
    \/ \E c, d \in Calls :
        /\ calls[c].kind = "path" /\ calls[c].pathArg = "unknown_conf"
        /\ calls[c].ret = NoPath
        /\ calls[d].kind = "path" /\ calls[d].pathArg = "gateway_agent_conf"
        /\ calls[d].ret = cfg_config_file

\* calls c and d are runs of the same generator with the same identity and
\* the same baseline
SameRun(c, d) ==
    /\ c # d
    /\ calls[c].kind \in Generators
    /\ calls[c].kind = calls[d].kind
    /\ calls[c].id = calls[d].id
    /\ calls[c].rdata = calls[d].rdata

\* C15: when the write of a run succeeds after the write of an earlier run
\* of the same generator, with the same identity and baseline, the file
\* then holds exactly what the earlier run wrote.
C15_RerunWritesSameContent ==
    [][\A c, d \in Calls :
        (SameRun(c, d) /\ calls[c].writeOk /\ ~calls[d].writeOk /\ calls'[d].writeOk)
            => /\ calls[d].writePath \in DOMAIN files'
               /\ files'[calls[d].writePath] = calls[c].data
               /\ calls[d].writePath = calls[c].writePath]_vars

\* two runs of a generator, the second made with the identity cached, have
\* both written the file
C15_Witness ==
    \E c, d \in Calls :
        /\ SameRun(c, d)
        /\ calls[c].writeOk /\ calls[d].writeOk
        /\ calls[c].nMac = 1 /\ calls[d].nMac = 0
        /\ files[calls[d].writePath] = calls[c].data

\* C16: a generator call issues at most one hardware lookup, one baseline
\* read, one stat and one write.
C16_NoRetry ==
    \A c \in Calls :
        calls[c].kind \in Generators
            => /\ calls[c].nMac <= 1
               /\ calls[c].nRead <= 1
               /\ calls[c].nStat <= 1
               /\ calls[c].nWrite <= 1

\* a call has ended on a failed write
C16_Witness ==
    \E c \in Calls :
        /\ calls[c].kind \in Generators
        /\ calls[c].fail = "write_err"
        /\ calls[c].inflight = {}
        /\ calls[c].nWrite = 1

TargetPaths ==
    { <<"etc", "hostapd", "hostapd.conf">>, <<"cwd", ".tmp", "hostapd.conf">>,
      cfg_config_file }

\* C17: no step changes, creates or removes the baseline file; the only
\* files a step writes are the target files.
C17_BaselineReadOnly ==
    [][/\ (cfg_baseline_config_file \in DOMAIN files')
            = (cfg_baseline_config_file \in DOMAIN files)
       /\ cfg_baseline_config_file \in DOMAIN files
            => files'[cfg_baseline_config_file] = files[cfg_baseline_config_file]
       /\ \A p \in DOMAIN files' :
            (IF p \in DOMAIN files THEN files'[p] # files[p] ELSE TRUE)
                => p \in TargetPaths]_vars

\* the agent configuration has been written and the baseline is as it was read
C17_Witness ==
    \E c \in Calls :
        /\ calls[c].kind = "agent"
        /\ calls[c].writeOk
        /\ cfg_config_file \in DOMAIN files
        /\ cfg_baseline_config_file \in DOMAIN files
        /\ files[cfg_baseline_config_file] = calls[c].rdata

\* C18: the constructor throws when the logger is missing or no object, or
\* the configured gateway address is not a non-empty string; an instance, and
\* so every call, has a logger object and a non-empty gateway address.
C18_ConstructorValidates ==
    /\ (builder.state # "none"
            /\ (builder.arg.type # "object"
                    \/ cfg_local_network_gateway.type # "string"
                    \/ cfg_local_network_gateway.s = ""))
        => builder.state = "threw"
    /\ builder.state = "built"
        => /\ builder.logger.type = "object"
           /\ builder.localNetworkGatewayIP.type = "string"
           /\ builder.localNetworkGatewayIP.s # ""
    /\ \A c \in Calls : calls[c].kind # "none" => builder.state = "built"

\* the constructor has thrown on an empty gateway address
C18_Witness ==
    /\ builder.state = "threw"
    /\ builder.arg.type = "object"
    /\ cfg_local_network_gateway = [type |-> "string", s |-> ""]

\* C19: a call has at most one I/O operation in flight; it issues the read
\* after the identity is resolved, the stat after the payload is built (the
\* identity resolved and, for the agent configuration, the baseline read),
\* and the write after the stat has succeeded.
C19_StagesSequential ==
    [][\A c \in Calls :
        LET r == calls[c]
            q == calls'[c]
        IN  /\ Cardinality(q.inflight) <= 1
            /\ q.nRead > r.nRead
                => (q.id # <<>> /\ "mac" \notin q.inflight)
            /\ (q.nStat > r.nStat /\ q.kind \in Generators)
                => /\ q.id # <<>> /\ q.data # <<>>
                   /\ "mac" \notin q.inflight /\ "read" \notin q.inflight
                   /\ q.kind = "agent" => (q.nRead = 1 /\ JSONparse(q.rdata).ok)
            /\ q.nWrite > r.nWrite
                => (r.nStat = 1 /\ q.statOk /\ "stat" \notin q.inflight)]_vars

\* an agent call has gone through all four stages and its write is in flight
C19_Witness ==
    \E c \in Calls :
        /\ calls[c].kind = "agent"
        /\ calls[c].nMac = 1 /\ calls[c].nRead = 1
        /\ calls[c].nStat = 1 /\ calls[c].nWrite = 1
        /\ calls[c].inflight = {"write"}

Logged(c, tag) == \E i \in 1..Len(calls[c].log) : calls[c].log[i] = tag

\* C20: 'Config file written successfully' is logged only when writeFile
\* completed without error; a write error is logged as an error, without
\* the success message.
C20_SuccessLoggedOnlyOnSuccess ==
    \A c \in Calls :
        /\ Logged(c, "info:config_file_written") => calls[c].writeOk
        /\ calls[c].fail = "write_err"
            => /\ Logged(c, "error:writing_to_file")
               /\ ~Logged(c, "info:config_file_written")

====
